---- MODULE Spec2Model ----
(***************************************************************************)
(* Model of plop/collector.py: the Collector (interval timer, signal       *)
(* handler, start / stop / reset), and the two formatters that read the    *)
(* collected stacks (PlopFormatter, FlamegraphFormatter).                  *)
(*                                                                         *)
(* Time is counted in integer units, so int(duration / interval) is the    *)
(* integer quotient; the rounding of binary floating point is not          *)
(* modelled.  The Python signal handler runs in the main thread between    *)
(* two bytecodes, and the caller of start / stop / reset is that same main *)
(* thread (as in main()), so one handler invocation is one atomic step.    *)
(***************************************************************************)
EXTENDS Integers, Sequences, FiniteSets, TLC

\* ------------------------------------------------------------------ bounds
MaxDuration == 3
MaxInterval == 2
MaxThreads == 2
MaxStore == 5
MaxSampleCost == 1
MaxK == 2
MaxExtra == 1
MaxRepeats == 2
BlockLen == 16

\* ---------------------------------------------------------------- constants
\* PlopFormatter.__init__ stores the literal 50, whatever it is given.
DefaultMaxStacks == 50

VARIABLES
    interval,           \* Collector.interval
    mode,               \* the mode argument of Collector(...); Collector.mode when it is accepted
    stacks,             \* Collector.stacks
    samples_remaining,  \* Collector.samples_remaining
    stopping,           \* Collector.stopping
    stopped,            \* Collector.stopped
    samples_taken,      \* Collector.samples_taken
    sample_time,        \* Collector.sample_time
    armed,              \* the interval timer set by platform.setitimer
    pending,            \* the signal has fired, its Python handler has not run yet
    pc,                 \* position of the calling thread: "idle" or "wait" (inside stop())
    duration,           \* history: the argument of the latest start()
    fresh,              \* history: the latest start() found the state reset() leaves, and no reset() since
    session,            \* history: parity of the number of start() calls
    ticks,              \* history: handler invocations since the latest start()
    stop_returns,       \* history: stop() calls that returned since the latest start() or reset(), counted up to 2
    thread_counts,      \* history: the number of threads captured at each tick counted in samples_taken
    flame_output,       \* <<>> or <<s>>, s the value FlamegraphFormatter.format returned
    plop_output,        \* <<>> or <<m>>, m the mapping PlopFormatter.format built
    plop_k,             \* the max_stacks argument PlopFormatter was constructed with (0: none yet)
    plop_counts,        \* <<>> or <<c>>, c the stack_counts of PlopFormatter.format before sorted(...)[:max_stacks]
    file,               \* main: <<>> or <<extension>> of the output file written
    status              \* main: the status messages printed after stop(), in order

collector == <<stacks, samples_remaining, stopping, stopped, samples_taken, sample_time>>
config == <<interval, mode>>
history == <<duration, fresh, session, ticks, stop_returns, thread_counts>>
outputs == <<flame_output, plop_output, plop_k, plop_counts>>
report == <<file, status>>
vars == <<config, collector, armed, pending, pc, history, outputs, report>>

\* ------------------------------------------------------------- frame chains
CodeMain == [co_filename |-> "app.py", co_firstlineno |-> 1, co_name |-> "main"]
CodeWork == [co_filename |-> "app.py", co_firstlineno |-> 10, co_name |-> "work"]
CodeRead == [co_filename |-> "io.py", co_firstlineno |-> 5, co_name |-> "read"]

\* A thread's frame chain, innermost frame first (frame, frame.f_back, ...).
FrameChains == { <<CodeWork, CodeMain>>, <<CodeRead, CodeMain>> }

\* The while loop of the handler: one (filename, firstlineno, name) per frame.
WalkFrames(chain) ==
    [i \in 1..Len(chain) |->
        <<chain[i].co_filename, chain[i].co_firstlineno, chain[i].co_name>>]

StackA == WalkFrames(<<CodeWork, CodeMain>>)
StackB == WalkFrames(<<CodeRead, CodeMain>>)

\* sys._current_frames(): the chains of the threads alive at a tick, at least
\* the main thread.
CurrentFrames == UNION { [1..n -> FrameChains] : n \in 1..MaxThreads }

\* the for loop of the handler over sys._current_frames().items()
CaptureFirstOnly(store, frames) == Append(store, WalkFrames(Head(frames)))
RECURSIVE CaptureAll(_, _)
CaptureAll(store, frames) ==
    IF frames = <<>> THEN store
    ELSE CaptureAll(Append(store, WalkFrames(Head(frames))), Tail(frames))

Max(a, b) == IF a >= b THEN a ELSE b
Min(a, b) == IF a <= b THEN a ELSE b

\* ---------------------------------------------------------------- Collector
\* int(duration / self.interval)
SamplesBudgetTimes(d, i) == d * i
SamplesBudgetPlusOne(d, i) == (d \div i) + 1
SamplesBudget(d, i) == d \div i

\* the test of the handler after the decrement
IsTerminalStrict(rem, stop) == rem < 0 \/ stop
IsTerminalEqual(rem, stop) == rem = 0 \/ stop
IsTerminalNoStop(rem, stop) == rem <= 0
IsTerminalEarly(rem, stop) == rem <= 1 \/ stop
IsTerminalAnd(rem, stop) == rem <= 0 /\ stop
IsTerminal(rem, stop) == rem <= 0 \/ stop

\* Collector.MODES: (timer, signal) of each mode
MODES ==
    [prof |-> <<"ITIMER_PROF", "SIGPROF">>,
     virtual |-> <<"ITIMER_VIRTUAL", "SIGVTALRM">>,
     real |-> <<"ITIMER_REAL", "SIGALRM">>]

\* Collector.__init__ returned: "assert mode in Collector.MODES" held.  With
\* any other mode the constructor raises, there is no Collector, and no method
\* of it can be called.
Constructed == mode \in DOMAIN MODES

\* the mode arguments tried: the default of Collector(...) and an unknown one
ModeInputs == {"virtual", "turbo"}

ResetState ==
    /\ stacks = <<>>
    /\ samples_remaining = 0
    /\ stopping = FALSE
    /\ stopped = FALSE
    /\ samples_taken = 0
    /\ sample_time = 0

Init ==
    /\ interval \in 1..MaxInterval
    /\ mode \in ModeInputs
    /\ ResetState
    /\ armed = FALSE
    /\ pending = FALSE
    /\ pc = "idle"
    /\ duration = 0
    /\ fresh = FALSE
    /\ session = 0
    /\ ticks = 0
    /\ stop_returns = 0
    /\ thread_counts = <<>>
    /\ flame_output = <<>>
    /\ plop_output = <<>>
    /\ plop_k = 0
    /\ plop_counts = <<>>
    /\ file = <<>>
    /\ status = <<>>

reset ==
    /\ Constructed
    /\ pc = "idle"
    /\ stacks' = <<>>
    /\ samples_remaining' = 0
    /\ stopping' = FALSE
    /\ stopped' = FALSE
    /\ samples_taken' = 0
    /\ sample_time' = 0
    /\ fresh' = FALSE
    /\ thread_counts' = <<>>
    /\ stop_returns' = 0
    /\ UNCHANGED <<config, armed, pending, pc, duration, session, ticks, outputs, report>>

start(d) ==
    /\ Constructed
    /\ pc = "idle"
    /\ Len(stacks) + Max((d \div interval) - 1, 0) * MaxThreads <= MaxStore  \* keeps the store within MaxStore
    /\ stopping' = FALSE
    /\ stopped' = FALSE
    /\ samples_remaining' = SamplesBudget(d, interval)
    /\ armed' = TRUE
    /\ duration' = d
    /\ fresh' = ResetState
    /\ session' = 1 - session
    /\ ticks' = 0
    /\ stop_returns' = 0
    /\ UNCHANGED <<config, stacks, samples_taken, sample_time, pending, pc,
                   thread_counts, outputs, report>>

\* stop(): self.stopping = True, then the caller enters wait()
stopClearsStopped ==
    /\ Constructed
    /\ pc = "idle"
    /\ stopping' = TRUE
    /\ stopped' = FALSE
    /\ pc' = "wait"
    /\ UNCHANGED <<config, stacks, samples_remaining, samples_taken,
                   sample_time, armed, pending, history, outputs, report>>
stop ==
    /\ Constructed
    /\ pc = "idle"
    /\ stopping' = TRUE
    /\ pc' = "wait"
    /\ UNCHANGED <<config, stacks, samples_remaining, stopped, samples_taken,
                   sample_time, armed, pending, history, outputs, report>>

\* wait(): the busy loop ends when it reads stopped = True
waitReturnsAtOnce ==
    /\ pc = "wait"
    /\ pc' = "idle"
    /\ stop_returns' = IF stop_returns < 2 THEN stop_returns + 1 ELSE 2
    /\ UNCHANGED <<config, collector, armed, pending, duration, fresh, session, ticks,
                   thread_counts, outputs, report>>
wait ==
    /\ pc = "wait"
    /\ stopped
    /\ pc' = "idle"
    /\ stop_returns' = IF stop_returns < 2 THEN stop_returns + 1 ELSE 2
    /\ UNCHANGED <<config, collector, armed, pending, duration, fresh, session, ticks,
                   thread_counts, outputs, report>>

\* The armed timer expires: the signal is raised and its handler becomes due.
TimerFire ==
    /\ armed
    /\ ~pending
    /\ pending' = TRUE
    /\ UNCHANGED <<config, collector, armed, pc, history, outputs, report>>

\* One invocation of Collector.handler.  The timer may expire again while the
\* handler runs with the timer still armed (refire), which leaves one more
\* invocation due even if this one disarms the timer.
handler ==
    /\ pending
    /\ \E refire \in (IF armed THEN BOOLEAN ELSE {FALSE}) : pending' = refire
    /\ samples_remaining' = samples_remaining - 1
    /\ ticks' = ticks + 1
    /\ IF IsTerminal(samples_remaining', stopping)
       THEN /\ armed' = FALSE
            /\ stopped' = TRUE
            /\ UNCHANGED <<stacks, samples_taken, sample_time, thread_counts>>
       ELSE /\ \E frames \in CurrentFrames :
                  /\ stacks' = CaptureAll(stacks, frames)
                  /\ thread_counts' = Append(thread_counts, Len(frames))
            /\ samples_taken' = samples_taken + 1
            /\ \E cost \in 0..MaxSampleCost : sample_time' = sample_time + cost
            /\ UNCHANGED <<armed, stopped>>
    /\ UNCHANGED <<config, stopping, pc, duration, fresh, session, stop_returns, outputs, report>>

Next ==
    \/ reset
    \/ \E d \in 0..MaxDuration : start(d)
    \/ stop
    \/ wait
    \/ TimerFire
    \/ handler

Spec == Init /\ [][Next]_vars

\* The timer keeps expiring while armed, the interpreter runs a due handler
\* while the main thread executes bytecode (the busy loop of wait() included),
\* and the busy loop re-reads stopped.
FairSpec == Spec /\ WF_vars(TimerFire) /\ WF_vars(handler) /\ WF_vars(wait)

TypeOK ==
    /\ interval \in 1..MaxInterval
    /\ stopping \in BOOLEAN /\ stopped \in BOOLEAN
    /\ armed \in BOOLEAN /\ pending \in BOOLEAN
    /\ pc \in {"idle", "wait"}
    /\ samples_taken \in Nat /\ sample_time \in Nat
    /\ Len(stacks) <= MaxStore
\* ------------------------------------------------------------ the formatters
RECURSIVE Reversed(_)
Reversed(s) == IF s = <<>> THEN <<>> ELSE Append(Reversed(Tail(s)), Head(s))

RECURSIVE Join(_, _)
Join(strs, sep) ==
    IF strs = <<>> THEN ""
    ELSE IF Len(strs) = 1 THEN strs[1]
    ELSE strs[1] \o sep \o Join(Tail(strs), sep)

\* "{0[2]} ({0[0]}:{0[1]})".format(frame)
FormatFrame(f) == f[3] \o " (" \o f[1] \o ":" \o ToString(f[2]) \o ")"

\* FlamegraphFormatter.format_flame
format_flame(stack) ==
    Join([i \in 1..Len(stack) |-> FormatFrame(Reversed(stack)[i])], ";")

\* "%s %d\n" % (previous, previous_count); previous is <<>> for None, <<s>> for the string s
FlameLine(previous, previous_count) ==
    (IF previous = <<>> THEN "None" ELSE previous[1])
        \o " " \o ToString(previous_count) \o "\n"

\* the for loop of FlamegraphFormatter.format over store[i..], then the final line
RECURSIVE FlameLoop(_, _, _, _, _)
FlameLoop(store, i, output, previous, previous_count) ==
    IF i > Len(store) THEN output \o FlameLine(previous, previous_count)
    ELSE LET current == format_flame(store[i]) IN
         IF previous = <<current>>
         THEN FlameLoop(store, i + 1, output, previous, previous_count + 1)
         ELSE FlameLoop(store, i + 1, output \o FlameLine(previous, previous_count),
                        <<current>>, 1)

\* FlamegraphFormatter.format
FlamegraphFormatter_format(store) == FlameLoop(store, 1, "", <<>>, 1)

\* PlopFormatter.__init__: self.max_stacks
PlopFormatter_init(max_stacks) == DefaultMaxStacks

\* stack_counts[tuple(frames)] += 1 on a defaultdict(int)
CountStepAssign(counts, key) ==
    IF key \in DOMAIN counts THEN [counts EXCEPT ![key] = 1]
    ELSE (key :> 1) @@ counts
CountStep(counts, key) ==
    IF key \in DOMAIN counts THEN [counts EXCEPT ![key] = @ + 1]
    ELSE (key :> 0 + 1) @@ counts

\* e, once v has been evaluated.  The loops below hand each intermediate value
\* on evaluated, and run in blocks of BlockLen iterations, so that the depth of
\* their evaluation stays small on stores of more than DefaultMaxStacks stacks.
Then(v, e) == IF v = v THEN e ELSE e

\* the first loop of PlopFormatter.format over store[i..last]
RECURSIVE CountLoop(_, _, _, _)
CountLoop(store, i, last, counts) ==
    IF i > last THEN counts
    ELSE LET next == CountStep(counts, store[i])
         IN  Then(next, CountLoop(store, i + 1, last, next))

\* the first loop of PlopFormatter.format over store[i..], block after block
RECURSIVE CountBlocks(_, _, _)
CountBlocks(store, i, counts) ==
    IF i > Len(store) THEN counts
    ELSE LET block == CountLoop(store, i, Min(i + BlockLen - 1, Len(store)), counts)
         IN  Then(block, CountBlocks(store, i + BlockLen, block))

\* the defaultdict built by the first loop of PlopFormatter.format
StackCounts(store) == CountBlocks(store, 1, <<>>)

\* The keys of the store in the order of their first occurrence.
RECURSIVE FirstOccurrences(_, _, _)
FirstOccurrences(store, i, keys) ==
    IF i > Len(store) THEN keys
    ELSE IF \E j \in DOMAIN keys : keys[j] = store[i]
         THEN FirstOccurrences(store, i + 1, keys)
         ELSE FirstOccurrences(store, i + 1, Append(keys, store[i]))

Rotated(keys, r) == [i \in DOMAIN keys |-> keys[((i - 1 + r) % Len(keys)) + 1]]

\* stack_counts.iteritems(): the keys in the order of the dict, which is fixed
\* by their hashes and is unrelated to the counts.  The orders tried are the
\* rotations of the first-occurrence order and of its reverse (every order, up
\* to three keys).
DictOrders(store) ==
    LET keys == FirstOccurrences(store, 1, <<>>)
    IN  IF keys = <<>> THEN { <<>> }
        ELSE { Rotated(keys, r) : r \in 0..(Len(keys) - 1) }
                \cup { Rotated(Reversed(keys), r) : r \in 0..(Len(keys) - 1) }

\* One insertion of the stable sort with key -count: the item goes behind every
\* item whose count is not smaller, so equal counts keep their order.
InsertByCountAscending(sorted, key, counts) ==
    LET before == { i \in DOMAIN sorted : counts[sorted[i]] <= counts[key] }
        n == Cardinality(before)
    IN  SubSeq(sorted, 1, n) \o <<key>> \o SubSeq(sorted, n + 1, Len(sorted))
InsertByCount(sorted, key, counts) ==
    LET before == { i \in DOMAIN sorted : counts[sorted[i]] >= counts[key] }
        n == Cardinality(before)
    IN  SubSeq(sorted, 1, n) \o <<key>> \o SubSeq(sorted, n + 1, Len(sorted))

\* the sort over order[i..last]
RECURSIVE SortedItems(_, _, _, _, _)
SortedItems(order, i, last, sorted, counts) ==
    IF i > last THEN sorted
    ELSE LET next == InsertByCount(sorted, order[i], counts)
         IN  Then(next, SortedItems(order, i + 1, last, next, counts))

\* sorted(stack_counts.iteritems(), key=lambda kv: -kv[1]) over order[i..],
\* block after block
RECURSIVE SortedBlocks(_, _, _, _)
SortedBlocks(order, i, sorted, counts) ==
    IF i > Len(order) THEN sorted
    ELSE LET block == SortedItems(order, i, Min(i + BlockLen - 1, Len(order)), sorted, counts)
         IN  Then(block, SortedBlocks(order, i + BlockLen, block, counts))

\* dict(sorted(...)[:self.max_stacks]); order is the order of the dict
PlopFormatter_format(store, max_stacks, order) ==
    LET counts == StackCounts(store)
        sorted == SortedBlocks(order, 1, <<>>, counts)
        slice == SubSeq(sorted, 1, Min(max_stacks, Len(sorted)))
    IN  [s \in { slice[i] : i \in DOMAIN slice } |-> counts[s]]

FormatFlame ==
    /\ flame_output' = <<FlamegraphFormatter_format(stacks)>>
    /\ UNCHANGED <<config, collector, armed, pending, pc, history,
                   plop_output, plop_k, plop_counts, report>>

\* PlopFormatter(max_stacks=k).format(collector)
FormatPlop(k) ==
    /\ plop_k' = k
    /\ plop_counts' = <<StackCounts(stacks)>>
    /\ \E order \in DictOrders(stacks) :
          plop_output' = <<PlopFormatter_format(stacks, PlopFormatter_init(k), order)>>
    /\ UNCHANGED <<config, collector, armed, pending, pc, history, flame_output, report>>

\* The stores a finished session can leave: every sequence of captured stacks,
\* here with one thread captured per tick and the budget used up.
StackValues == { WalkFrames(chain) : chain \in FrameChains }
Stores == UNION { [1..n -> StackValues] : n \in 0..MaxStore }

FormatInit ==
    /\ interval = 1
    /\ mode = "virtual"
    /\ stacks \in Stores
    /\ samples_remaining = 0
    /\ stopping = FALSE
    /\ stopped = TRUE
    /\ samples_taken = Len(stacks)
    /\ sample_time \in 0..MaxSampleCost
    /\ armed = FALSE
    /\ pending = FALSE
    /\ pc = "idle"
    /\ duration = Len(stacks) + 1
    /\ fresh = TRUE
    /\ session = 1
    /\ ticks = Len(stacks) + 1
    /\ stop_returns = 0
    /\ thread_counts = [i \in 1..Len(stacks) |-> 1]
    /\ flame_output = <<>>
    /\ plop_output = <<>>
    /\ plop_k = 0
    /\ plop_counts = <<>>
    /\ file = <<>>
    /\ status = <<>>

FormatNext ==
    \/ FormatFlame
    \/ \E k \in 1..MaxK : FormatPlop(k)

FormatSpec == FormatInit /\ [][FormatNext]_vars

\* Stores with more distinct stacks than PlopFormatter keeps: one stack per
\* function of a generated module, each captured once, then up to MaxRepeats
\* further captures of the first, the middle or the last of them.
GenCode(n) == [co_filename |-> "gen.py", co_firstlineno |-> n, co_name |-> "fn"]
GenStack(n) == WalkFrames(<<GenCode(n), CodeMain>>)
NumDistinct == DefaultMaxStacks + MaxExtra
RepeatedStacks == { GenStack(1), GenStack(NumDistinct \div 2), GenStack(NumDistinct) }
TopStores ==
    { [i \in 1..NumDistinct |-> GenStack(i)] \o repeats :
        repeats \in UNION { [1..n -> RepeatedStacks] : n \in 0..MaxRepeats } }

TopInit ==
    /\ interval = 1
    /\ mode = "virtual"
    /\ stacks \in TopStores
    /\ samples_remaining = 0
    /\ stopping = FALSE
    /\ stopped = TRUE
    /\ samples_taken = Len(stacks)
    /\ sample_time = 0
    /\ armed = FALSE
    /\ pending = FALSE
    /\ pc = "idle"
    /\ duration = Len(stacks) + 1
    /\ fresh = TRUE
    /\ session = 1
    /\ ticks = Len(stacks) + 1
    /\ stop_returns = 0
    /\ thread_counts = [i \in 1..Len(stacks) |-> 1]
    /\ flame_output = <<>>
    /\ plop_output = <<>>
    /\ plop_k = 0
    /\ plop_counts = <<>>
    /\ file = <<>>
    /\ status = <<>>

\* the formatter is applied once to each of these stores
TopNext == \E k \in 1..MaxK : plop_output = <<>> /\ FormatPlop(k)

TopSpec == TopInit /\ [][TopNext]_vars

\* ---------------------------------------------------------------------- main
\* Collector(mode=args.mode, interval=args.interval): argparse admits only the
\* three known modes.
MainInit ==
    /\ interval \in 1..MaxInterval
    /\ mode \in DOMAIN MODES
    /\ ResetState
    /\ armed = FALSE
    /\ pending = FALSE
    /\ pc = "idle"
    /\ duration = 0
    /\ fresh = FALSE
    /\ session = 0
    /\ ticks = 0
    /\ stop_returns = 0
    /\ thread_counts = <<>>
    /\ flame_output = <<>>
    /\ plop_output = <<>>
    /\ plop_k = 0
    /\ plop_counts = <<>>
    /\ file = <<>>
    /\ status = <<>>

\* collector.start(duration=args.duration), the first thing main does with it
main_start(d) ==
    /\ session = 0
    /\ start(d)

\* the target returns or raises SystemExit, and main calls collector.stop()
main_stop ==
    /\ session = 1
    /\ ~stopping
    /\ stop

SavedMsg == "profile output saved"
OverheadMsg == "overhead per sample"
NoSamplesMsg == "no samples collected; program was too fast"

\* "if collector.samples_taken:"
HasSamplesAlways(taken) == TRUE
HasSamples(taken) == taken # 0

\* what main does once collector.stop() has returned: formatter.store(...) and
\* the messages of one branch.  format is args.format, k is args.max_stacks.
main_report(format, k) ==
    /\ pc = "idle"
    /\ stop_returns = 1
    /\ status = <<>>
    /\ IF HasSamples(samples_taken)
       THEN /\ IF format = "flamegraph"
               THEN /\ flame_output' = <<FlamegraphFormatter_format(stacks)>>
                    /\ file' = <<"flame">>
                    /\ UNCHANGED <<plop_output, plop_k, plop_counts>>
               ELSE /\ plop_k' = k
                    /\ plop_counts' = <<StackCounts(stacks)>>
                    /\ \E order \in DictOrders(stacks) :
                          plop_output' =
                              <<PlopFormatter_format(stacks, PlopFormatter_init(k), order)>>
                    /\ file' = <<"plop">>
                    /\ UNCHANGED flame_output
            /\ status' = <<SavedMsg, SavedMsg, OverheadMsg>>
       ELSE /\ status' = <<NoSamplesMsg>>
            /\ UNCHANGED <<file, outputs>>
    /\ UNCHANGED <<config, collector, armed, pending, pc, history>>

MainNext ==
    \/ \E d \in 0..MaxDuration : main_start(d)
    \/ TimerFire
    \/ handler
    \/ main_stop
    \/ wait
    \/ \E format \in {"plop", "flamegraph"}, k \in 1..MaxK : main_report(format, k)

MainSpec == MainInit /\ [][MainNext]_vars

\* -------------------------------------------------------------------- claims
\* The folded lines a store should give: one per maximal run of equal stacks.
RECURSIVE Runs(_)
Runs(store) ==
    IF store = <<>> THEN <<>>
    ELSE LET rest == Runs(Tail(store)) IN
         IF rest # <<>> /\ rest[1][1] = Head(store)
         THEN <<<<Head(store), rest[1][2] + 1>>>> \o Tail(rest)
         ELSE <<<<Head(store), 1>>>> \o rest

RECURSIVE FoldedText(_)
FoldedText(runs) ==
    IF runs = <<>> THEN ""
    ELSE format_flame(runs[1][1]) \o " " \o ToString(runs[1][2]) \o "\n"
            \o FoldedText(Tail(runs))

\* C1: FlamegraphFormatter.format returns exactly one line "<stack> <count>\n"
\* per maximal run of consecutive identical stacks, in store order, and no
\* other line; the store [A, A, A, B, A] gives "<A> 3\n<B> 1\n<A> 1\n".
C1_OneLinePerRun ==
    flame_output # <<>> =>
        /\ flame_output[1] = FoldedText(Runs(stacks))
        /\ stacks = <<StackA, StackA, StackA, StackB, StackA>> =>
              flame_output[1] = "main (app.py:1);work (app.py:10) 3\n"
                                   \o "main (app.py:1);read (io.py:5) 1\n"
                                   \o "main (app.py:1);work (app.py:10) 1\n"

\* C2: the mapping PlopFormatter(max_stacks = K).format builds has at most K entries.
C2_AtMostKEntries ==
    plop_output # <<>> => Cardinality(DOMAIN plop_output[1]) <= plop_k
\* the step is one invocation of the handler
HandlerStep == ticks' = ticks + 1

\* the step is a call of start()
StartStep == session' # session

\* floor(D / I) of the running session
Budget == duration \div interval

\* C3 as stated: when the budget of a session started on a freshly reset
\* Collector runs out without stop(), samples_taken is floor(D / I) + 1.
C3_TakenIsBudgetPlusOne ==
    (fresh /\ stopped /\ ~stopping) => samples_taken = Budget + 1

\* C3 amended: when the budget of a session started on a freshly reset
\* Collector runs out without stop(), samples_taken is max(floor(D / I) - 1, 0).
C3_TakenIsBudgetMinusOne ==
    (fresh /\ stopped /\ ~stopping) => samples_taken = Max(Budget - 1, 0)

C3_Witness ==
    fresh /\ stopped /\ ~stopping /\ Budget >= 2 /\ samples_taken = Budget - 1

\* C4: stop() called on a started session (timer armed, stopped false)
\* eventually returns, stopped is true when it returns, and the first tick
\* handled once stopping is set disarms the timer and sets stopped.
C4_StopReturns ==
    /\ (pc = "wait" /\ armed /\ ~stopped) ~> (pc = "idle" /\ stopped)
    /\ [][(pc = "wait" /\ pc' = "idle") => stopped']_vars
    /\ [][(stopping /\ HandlerStep) => (stopped' /\ ~armed')]_vars

C4_Witness ==
    pc = "idle" /\ stopping /\ stopped /\ ~armed /\ samples_remaining > 0

\* C5: once stopped is true, and until the next start(), no handler invocation
\* appends to stacks or changes samples_taken.
C5_NoSampleAfterStopped ==
    [][(stopped /\ HandlerStep) => UNCHANGED <<stacks, samples_taken>>]_vars

\* a tick was handled after the budget of the session had run out at 0
C5_Witness ==
    fresh /\ stopped /\ ~stopping /\ Budget >= 2 /\ samples_remaining < 0

\* C6: start() called while Running (timer armed, stopped false) fails and
\* leaves the timer, samples_remaining, stopping, stopped, stacks and
\* samples_taken unchanged.
C6_StartWhileRunningFails ==
    [][(armed /\ ~stopped /\ StartStep) =>
          UNCHANGED <<armed, samples_remaining, stopping, stopped, stacks, samples_taken>>]_vars

\* C7: reset() from Idle or Stopped leaves stacks empty, the counters zero and
\* the flags false; reset() while Running or Stopping (timer armed, stopped
\* false) is rejected and changes no state.
C7_ResetOnlyWhenIdleOrStopped ==
    [][reset => IF armed /\ ~stopped THEN UNCHANGED collector ELSE ResetState']_vars

\* C8: during an active session (from start() until stopped becomes true) no
\* step makes stacks shorter.
C8_StoreNeverShrinks ==
    [][(armed /\ ~stopped) => Len(stacks') >= Len(stacks)]_vars

\* C9: each handled tick decreases samples_remaining by exactly one; the timer
\* goes from armed to disarmed at the tick at which samples_remaining (after
\* the decrement) is <= 0 or stopping is true, at no other step, and every
\* session that no later start() replaces reaches that tick.
C9_DisarmedOnceAtTerminalTick ==
    /\ [][HandlerStep => samples_remaining' = samples_remaining - 1]_vars
    /\ [][(armed /\ ~armed') <=>
            (armed /\ HandlerStep /\ (samples_remaining' <= 0 \/ stopping))]_vars
    /\ \A b \in {0, 1} : (armed /\ session = b) ~> (~armed \/ session # b)

C9_Witness ==
    ~armed /\ stopped /\ ~stopping /\ ticks >= 2 /\ ticks = Budget /\ samples_remaining = 0

\* C10: in a run begun by start(D) on a freshly reset Collector, whatever the
\* interleaving of ticks and stop(), samples_taken never exceeds floor(D / I) + 1.
C10_TakenAtMostBudgetPlusOne ==
    fresh => samples_taken <= Budget + 1

C10_Witness ==
    fresh /\ stopping /\ stopped /\ pc = "idle" /\ samples_taken >= 1
\* Reading a folded-stack text back: a line ends at each "\n", and the count
\* of a line is the number written after its last space.
CharAt(text, i) == SubSeq(text, i, i)

LineEnds(text) == { i \in 1..Len(text) : CharAt(text, i) = "\n" }

SetMax(S) == CHOOSE m \in S : \A x \in S : x <= m

\* the last position before e that holds a " " (0 when the line starts the
\* text), which a count follows
CountStart(text, e) ==
    SetMax({0} \cup { i \in 1..(e - 1) : CharAt(text, i) = " " }) + 1

DigitValue(c) == CHOOSE d \in 0..9 : ToString(d) = c

RECURSIVE ParseNat(_, _)
ParseNat(digits, acc) ==
    IF digits = "" THEN acc
    ELSE ParseNat(Tail(digits), 10 * acc + DigitValue(Head(digits)))

LineCount(text, e) == ParseNat(SubSeq(text, CountStart(text, e), e - 1), 0)

RECURSIVE SumCounts(_, _)
SumCounts(text, ends) ==
    IF ends = {} THEN 0
    ELSE LET e == SetMax(ends) IN LineCount(text, e) + SumCounts(text, ends \ {e})

\* C11: for every store, the empty one included, the counts on the lines
\* FlamegraphFormatter.format returns add up to the number of stacks in the store.
C11_CountsSumToStoreLength ==
    flame_output # <<>> =>
        SumCounts(flame_output[1], LineEnds(flame_output[1])) = Len(stacks)
RECURSIVE SumSeq(_)
SumSeq(nums) == IF nums = <<>> THEN 0 ELSE Head(nums) + SumSeq(Tail(nums))

\* C12: after any sequence of start, tick, stop and reset, the length of stacks
\* is the sum, over the capturing ticks counted in samples_taken, of the number
\* of threads alive at that tick; with a constant thread count T it is
\* samples_taken * T.
C12_StoreLengthIsThreadsCaptured ==
    /\ Len(thread_counts) = samples_taken
    /\ Len(stacks) = SumSeq(thread_counts)
    /\ \A T \in 1..MaxThreads :
          (\A i \in DOMAIN thread_counts : thread_counts[i] = T) =>
              Len(stacks) = samples_taken * T

C12_Witness ==
    stopped /\ samples_taken = 2 /\ thread_counts = <<1, 2>> /\ Len(stacks) = 3
RECURSIVE SumOver(_, _)
SumOver(counts, keys) ==
    IF keys = {} THEN 0
    ELSE LET k == CHOOSE x \in keys : TRUE IN counts[k] + SumOver(counts, keys \ {k})

\* C14: the aggregation of PlopFormatter.format, before the truncation, maps
\* each distinct stack of the store (stacks equal frame by frame are one stack)
\* to its number of occurrences, so the counts add up to len(store);
\* [A, A, A, B, A] gives {A: 4, B: 1}.
C14_AggregateCountsOccurrences ==
    plop_counts # <<>> =>
        LET counts == plop_counts[1] IN
        /\ DOMAIN counts = { stacks[i] : i \in 1..Len(stacks) }
        /\ \A s \in DOMAIN counts :
              counts[s] = Cardinality({ i \in 1..Len(stacks) : stacks[i] = s })
        /\ SumOver(counts, DOMAIN counts) = Len(stacks)
        /\ stacks = <<StackA, StackA, StackA, StackB, StackA>> =>
              /\ DOMAIN counts = {StackA, StackB}
              /\ counts[StackA] = 4
              /\ counts[StackB] = 1

C14_Witness ==
    /\ plop_counts # <<>>
    /\ stacks = <<StackA, StackA, StackA, StackB, StackA>>
    /\ plop_counts[1][StackA] = 4
Occurrences(s) == Cardinality({ i \in 1..Len(stacks) : stacks[i] = s })

\* C17: every stack PlopFormatter.format keeps has a count greater than or
\* equal to the count of every distinct stack it leaves out, and each kept
\* stack is mapped to its exact number of occurrences in the store.
C17_KeptAreHighestCounts ==
    plop_output # <<>> =>
        LET kept == plop_output[1]
            distinct == { stacks[i] : i \in 1..Len(stacks) }
        IN  /\ DOMAIN kept \subseteq distinct
            /\ \A s \in DOMAIN kept : kept[s] = Occurrences(s)
            /\ \A s \in DOMAIN kept : \A t \in distinct \ DOMAIN kept :
                  kept[s] >= Occurrences(t)

\* a stack is left out while a stack captured more than once is kept
C17_Witness ==
    /\ plop_output # <<>>
    /\ \E i \in 1..Len(stacks) : stacks[i] \notin DOMAIN plop_output[1]
    /\ \E s \in DOMAIN plop_output[1] : plop_output[1][s] >= 2
InSeq(x, seq) == \E i \in DOMAIN seq : seq[i] = x

\* C15: once main has handled the stopped session, an output file has been
\* written if and only if samples_taken > 0; with samples_taken = 0 the "no
\* samples collected" status is reported instead of "profile saved"; and the
\* formatter has read the store only after stop() returned.
C15_FileIffSamples ==
    /\ status # <<>> =>
          /\ (file # <<>>) <=> (samples_taken > 0)
          /\ samples_taken = 0 => (InSeq(NoSamplesMsg, status) /\ ~InSeq(SavedMsg, status))
          /\ samples_taken > 0 => (InSeq(SavedMsg, status) /\ ~InSeq(NoSamplesMsg, status))
    /\ status = <<>> => file = <<>>
    /\ (flame_output # <<>> \/ plop_output # <<>>) => (stop_returns >= 1 /\ stopped)

C15_Witness ==
    status = <<NoSamplesMsg>> /\ file = <<>> /\ samples_taken = 0 /\ ticks >= 1 /\ stopping
\* C16: a configuration with an unknown clock mode, or a non-positive interval
\* or duration, fails before any sampling: the timer is never armed and no
\* tick is handled for it.
C16_InvalidConfigNeverSamples ==
    (mode \notin DOMAIN MODES \/ interval <= 0 \/ duration <= 0) =>
        (~armed /\ ~pending /\ ticks = 0)
\* C18: the terminal tick (samples_remaining <= 0 after the decrement, or
\* stopping true) captures nothing: it disarms the timer, sets stopped, and
\* leaves stacks, samples_taken and sample_time unchanged.
C18_TerminalTickCapturesNothing ==
    [][(HandlerStep /\ (samples_remaining' <= 0 \/ stopping)) =>
          (~armed' /\ stopped' /\ UNCHANGED <<stacks, samples_taken, sample_time>>)]_vars

C18_Witness ==
    /\ stopped /\ ~armed
    /\ Len(stacks) >= 1 /\ sample_time >= 1
    /\ fresh /\ ticks = samples_taken + 1

\* C19: after start(D) on a freshly reset Collector, N = floor(D / I), with no
\* stop(), the session ends by itself: the timer is disarmed and stopped set at
\* tick number max(N, 1), with exactly max(N - 1, 0) samples taken; a session
\* with N <= 1 never captures a stack.
C19_SessionEndsAtTickN ==
    /\ [][(fresh /\ ~stopping /\ armed /\ ~armed') =>
            /\ stopped'
            /\ ticks' = Max(Budget, 1)
            /\ samples_taken' = Max(Budget - 1, 0)]_vars
    /\ [](fresh /\ Budget <= 1 => stacks = <<>>)
    /\ \A b \in {0, 1} :
          (fresh /\ armed /\ ~stopping /\ session = b)
              ~> (~armed \/ stopping \/ ~fresh \/ session # b)

C19_Witness ==
    fresh /\ ~stopping /\ stopped /\ ~armed /\ Budget = 0 /\ ticks = 1 /\ samples_taken = 0

====
